---------------------------- MODULE Spec2Model ----------------------------
(***************************************************************************)
(* A model of brill_tagger.py: the baseline tagger (gen_tagcnts, max_elem, *)
(* initial_tagger), the patch applier (apply_patch) and main().            *)
(*                                                                         *)
(* Spec       main() as the interpreter runs it, statement by statement.   *)
(*            A statement that raises ends the run in pc = "raised".       *)
(*            A second run of line 100 on the same corpora (x_rerun) is    *)
(*            carried along so that two runs can be compared.              *)
(* SpecApply  apply_patch alone, called on bounded tag lists and patches.  *)
(*                                                                         *)
(* In Spec a tag is an atomic symbol ("NN"); in SpecApply, where the code  *)
(* works on the characters of the joined tag string, a tag is the sequence *)
(* of its characters (<<"N", "S">>).  A word is the sequence of its        *)
(* character codes, since line 26 compares its first character.            *)
(***************************************************************************)
EXTENDS Integers, Sequences, FiniteSets, TLC

VARIABLES
  initial_corpus,     \* line 91: list of (word, tag)
  patch_corpus,       \* line 99: list of (word, gold tag)
  tag_set,            \* line 93
  tag_cnts,           \* line 94: word -> dict tag -> count, keys in insertion order
  most_likely_tag,    \* line 96: word -> tag or None
  x,                  \* line 100: the predicted tags, built left to right
  x_rerun,            \* line 100 in a second run on the same corpora
  patches,            \* line 102
  sample_accepts_set, \* whether random.sample takes a set (Python < 3.11) or raises
  pc,                 \* the line main() is at, or "raised"
  raised,             \* the exception that ended the run, "none" while it runs
  ap_tags,            \* apply_patch: its argument corpus_tags
  ap_patch,           \* apply_patch: its argument patch
  ap_rule,            \* apply_patch: the (z, tag_a, tag_b) its patch was built from
  ap_out,             \* apply_patch: the list it returned
  ap_pc               \* apply_patch: "off", "call" or "returned"

vars == <<initial_corpus, patch_corpus, tag_set, tag_cnts, most_likely_tag, x,
          x_rerun, patches, sample_accepts_set, pc, raised,
          ap_tags, ap_patch, ap_rule, ap_out, ap_pc>>

mainVars == <<initial_corpus, patch_corpus, tag_set, tag_cnts, most_likely_tag, x,
              x_rerun, patches, sample_accepts_set, pc, raised>>

applyVars == <<ap_tags, ap_patch, ap_rule, ap_out, ap_pc>>

-----------------------------------------------------------------------------
(* Bounds *)

MaxInitial == 3

MaxPatch == 2

MaxLen == 3

-----------------------------------------------------------------------------
(* Values *)

\* Python's None
None == "None"

\* line 15
BROWNTAGS_PROPERNOUN == "NP"

\* line 26: ord("A"), ord("Z")
OrdA == 65

OrdZ == 90

\* the words of the corpora: "d" and "C"
Words == {<<100>>, <<67>>}

\* the tags of the corpora
Tags == {"NN", "NP", "VB"}

WordTags == Words \X Tags

SeqsUpTo(S, n) == UNION {[1..k -> S] : k \in 0..n}

\* a call returns one of a set of values, or raises
Returns(vals) == [raises |-> "none", vals |-> vals]

Raises(exc) == [raises |-> exc, vals |-> {}]

-----------------------------------------------------------------------------
(* Python dicts, keys in insertion order: a sequence of <<key, value>> *)

DictKeys(d) == {d[i][1] : i \in DOMAIN d}

DictGet(d, k) == d[CHOOSE i \in DOMAIN d : d[i][1] = k][2]

DictSet(d, k, v) ==
  IF k \in DictKeys(d)
  THEN [i \in DOMAIN d |-> IF d[i][1] = k THEN <<k, v>> ELSE d[i]]
  ELSE Append(d, <<k, v>>)

-----------------------------------------------------------------------------
(* The baseline tagger *)

\* line 21
get_tagset(corpus) == {corpus[i][2] : i \in DOMAIN corpus}

\* lines 35-36: the for loop from corpus[i] on
RECURSIVE gen_tagcnts_loop(_, _, _)
gen_tagcnts_loop(d, corpus, i) ==
  IF i > Len(corpus) THEN d
  ELSE LET w == corpus[i][1]
           t == corpus[i][2]
           v == IF t \in DictKeys(d[w]) THEN DictGet(d[w], t) + 1 ELSE 0
       IN gen_tagcnts_loop([d EXCEPT ![w] = DictSet(d[w], t, v)], corpus, i + 1)

\* lines 33-37
gen_tagcnts(corpus) ==
  gen_tagcnts_loop([w \in {corpus[i][1] : i \in DOMAIN corpus} |-> <<>>], corpus, 1)

\* lines 60-62: the for loop from the i-th key on
RECURSIVE max_elem_loop(_, _, _, _)
max_elem_loop(d, i, max_k, max_v) ==
  IF i > Len(d) THEN max_k
  ELSE IF d[i][2] > max_v
       THEN max_elem_loop(d, i + 1, d[i][1], d[i][2])
       ELSE max_elem_loop(d, i + 1, max_k, max_v)

\* lines 58-63
max_elem(d) == max_elem_loop(d, 1, None, 0)

\* line 29: random.sample(tag_set, 1)[0].  From Python 3.11 on a set is refused
\* (TypeError); before, an empty population is a ValueError.
random_sample(population) ==
  IF ~sample_accepts_set THEN Raises("TypeError:29")
  ELSE IF population = {} THEN Raises("ValueError:29")
  ELSE Returns(population)

\* a plausible bug: every unseen word gets a random tag
initial_tagger_NoCapitalRule(word, mlt, ts) ==
  IF word \in DOMAIN mlt THEN Returns({mlt[word]})
  ELSE random_sample(ts)

\* lines 23-29
initial_tagger(word, mlt, ts) ==
  IF word \in DOMAIN mlt THEN Returns({mlt[word]})
  ELSE IF OrdA <= word[1] /\ word[1] <= OrdZ THEN Returns({BROWNTAGS_PROPERNOUN})
  ELSE random_sample(ts)

\* line 70: "for i in len(tagged)" iterates an int
tag_mismatches(tagged, actual) == Raises("TypeError:70")

-----------------------------------------------------------------------------
(* main() *)

Init ==
  /\ initial_corpus \in SeqsUpTo(WordTags, MaxInitial)
  /\ patch_corpus \in SeqsUpTo(WordTags, MaxPatch)
  /\ sample_accepts_set \in BOOLEAN
  /\ tag_set = {}
  /\ tag_cnts = <<>>
  /\ most_likely_tag = <<>>
  /\ x = <<>>
  /\ x_rerun = <<>>
  /\ patches = {}
  /\ pc = "l93"
  /\ raised = "none"
  /\ ap_tags = <<>>
  /\ ap_patch = <<>>
  /\ ap_rule = <<>>
  /\ ap_out = <<>>
  /\ ap_pc = "off"

\* lines 93-96
Train ==
  /\ pc = "l93"
  /\ tag_set' = get_tagset(initial_corpus)
  /\ tag_cnts' = gen_tagcnts(initial_corpus)
  /\ most_likely_tag' = [w \in DOMAIN tag_cnts' |-> max_elem(tag_cnts'[w])]
  /\ pc' = "l100"
  /\ UNCHANGED <<initial_corpus, patch_corpus, x, x_rerun, patches,
                 sample_accepts_set, raised>>
  /\ UNCHANGED applyVars

\* line 100, one word of the comprehension: initial_tagger returns
TagWord ==
  /\ pc = "l100"
  /\ Len(x) < Len(patch_corpus)
  /\ LET r == initial_tagger(patch_corpus[Len(x) + 1][1], most_likely_tag, tag_set)
     IN /\ r.raises = "none"
        /\ \E t \in r.vals : x' = Append(x, t)
        /\ \E t \in r.vals : x_rerun' = Append(x_rerun, t)
  /\ UNCHANGED <<initial_corpus, patch_corpus, tag_set, tag_cnts, most_likely_tag,
                 patches, sample_accepts_set, pc, raised>>
  /\ UNCHANGED applyVars

\* line 100, one word of the comprehension: initial_tagger raises
TagWordRaises ==
  /\ pc = "l100"
  /\ Len(x) < Len(patch_corpus)
  /\ LET r == initial_tagger(patch_corpus[Len(x) + 1][1], most_likely_tag, tag_set)
     IN /\ r.raises # "none"
        /\ raised' = r.raises
  /\ pc' = "raised"
  /\ UNCHANGED <<initial_corpus, patch_corpus, tag_set, tag_cnts, most_likely_tag,
                 x, x_rerun, patches, sample_accepts_set>>
  /\ UNCHANGED applyVars

\* line 102, once the comprehension of line 100 is through
InitPatches ==
  /\ pc = "l100"
  /\ Len(x) = Len(patch_corpus)
  /\ patches' = {}
  /\ pc' = "l103"
  /\ UNCHANGED <<initial_corpus, patch_corpus, tag_set, tag_cnts, most_likely_tag,
                 x, x_rerun, sample_accepts_set, raised>>
  /\ UNCHANGED applyVars

\* line 103: the for statement evaluates tag_mismatches(x, patch_corpus), which
\* raises for every argument, so lines 104-119 are never run
ForMismatches ==
  /\ pc = "l103"
  /\ LET r == tag_mismatches(x, patch_corpus)
     IN /\ r.raises # "none"
        /\ raised' = r.raises
  /\ pc' = "raised"
  /\ UNCHANGED <<initial_corpus, patch_corpus, tag_set, tag_cnts, most_likely_tag,
                 x, x_rerun, patches, sample_accepts_set>>
  /\ UNCHANGED applyVars

Next == Train \/ TagWord \/ TagWordRaises \/ InitPatches \/ ForMismatches

Spec == Init /\ [][Next]_vars

-----------------------------------------------------------------------------
(* apply_patch *)

\* the tags apply_patch is called on, as character sequences: N, NS, V and "."
TagStrs == {<<"N">>, <<"N", "S">>, <<"V">>, <<".">>}

\* sep.join(list)
RECURSIVE str_join(_, _)
str_join(sep, list) ==
  IF list = <<>> THEN <<>>
  ELSE IF Len(list) = 1 THEN list[1]
  ELSE list[1] \o sep \o str_join(sep, Tail(list))

\* s.split(sep) from s[i] on, cur the piece read so far; sep is one character
RECURSIVE str_split_loop(_, _, _, _)
str_split_loop(s, sep, i, cur) ==
  IF i > Len(s) THEN <<cur>>
  ELSE IF <<s[i]>> = sep THEN <<cur>> \o str_split_loop(s, sep, i + 1, <<>>)
  ELSE str_split_loop(s, sep, i + 1, Append(cur, s[i]))

\* s.split(sep): the empty string splits into one empty piece
str_split(s, sep) == str_split_loop(s, sep, 1, <<>>)

\* one character of a compiled pattern against one character of the string:
\* "." matches any character, every other character of TagStrs itself
re_char(p, c) == p = "." \/ p = c

\* the pattern matches the string at position i
re_match_at(pat, s, i) ==
  /\ i + Len(pat) - 1 <= Len(s)
  /\ \A k \in 1..Len(pat) : re_char(pat[k], s[i + k - 1])

\* line 78: match_re.sub(replacement_rule, in_tagstr) from s[i] on: the leftmost
\* match is replaced and the scan goes on after it (matches do not overlap)
RECURSIVE re_sub(_, _, _, _)
re_sub(pat, repl, s, i) ==
  IF i > Len(s) THEN <<>>
  ELSE IF re_match_at(pat, s, i)
       THEN repl \o re_sub(pat, repl, s, i + Len(pat))
       ELSE <<s[i]>> \o re_sub(pat, repl, s, i + 1)

\* lines 74-79
apply_patch(patch, corpus_tags) ==
  LET match_rule == patch[1]
      replacement_rule == patch[2]
      in_tagstr == str_join(<<" ">>, corpus_tags)
      out_tagstr == re_sub(match_rule, replacement_rule, in_tagstr, 1)
  IN str_split(out_tagstr, <<" ">>)

\* lines 84-86: the patch (match rule, replacement rule) for one tag of tag_set,
\* the two tags of each rule joined by a space.  (As written the two tags are
\* passed to str.join as two arguments, which raises TypeError; main() never
\* gets there.  apply_patch is called here on the patches those lines spell.)
gen_patch1(tag, tag_a, tag_b) ==
  <<str_join(<<" ">>, <<tag, tag_a>>), str_join(<<" ">>, <<tag, tag_b>>)>>

InitApply ==
  /\ initial_corpus = <<>>
  /\ patch_corpus = <<>>
  /\ sample_accepts_set = TRUE
  /\ tag_set = {}
  /\ tag_cnts = <<>>
  /\ most_likely_tag = <<>>
  /\ x = <<>>
  /\ x_rerun = <<>>
  /\ patches = {}
  /\ pc = "off"
  /\ raised = "none"
  /\ ap_tags \in SeqsUpTo(TagStrs, MaxLen)
  /\ ap_rule \in {r \in TagStrs \X TagStrs \X TagStrs : r[2] # r[3]}
  /\ ap_patch = gen_patch1(ap_rule[1], ap_rule[2], ap_rule[3])
  /\ ap_out = <<>>
  /\ ap_pc = "call"

\* a call apply_patch(patch, corpus_tags)
ApplyPatch ==
  /\ ap_pc = "call"
  /\ ap_out' = apply_patch(ap_patch, ap_tags)
  /\ ap_pc' = "returned"
  /\ UNCHANGED <<ap_tags, ap_patch, ap_rule>>
  /\ UNCHANGED mainVars

NextApply == ApplyPatch

SpecApply == InitApply /\ [][NextApply]_vars

-----------------------------------------------------------------------------
(* What the specification's statements speak of *)

\* the gold tag of the patch corpus at position i
Gold(i) == patch_corpus[i][2]

\* the index positions where seq disagrees with the gold tags
ErrorPositions(seq) == {i \in DOMAIN seq : seq[i] # Gold(i)}

ErrorCount(seq) == Cardinality(ErrorPositions(seq))

\* the distinct (from_tag, to_tag) pairs among the mismatches of seq and gold
MismatchPairs(seq) == {<<seq[i], Gold(i)>> : i \in ErrorPositions(seq)}

\* template T1 applied at every position, reading the tags of seq itself
ApplyT1(z, from_tag, to_tag, seq) ==
  [i \in DOMAIN seq |->
     IF seq[i] = from_tag /\ i > 1 /\ seq[i - 1] = z THEN to_tag ELSE seq[i]]

\* the candidate rules (z, from_tag, to_tag) for the mismatches of seq
Candidates(seq) ==
  {<<z, m[1], m[2]>> : z \in tag_set, m \in MismatchPairs(seq)}

\* the number of times word w has tag t in the training corpus
Occurrences(w, t) ==
  Cardinality({i \in DOMAIN initial_corpus : initial_corpus[i] = <<w, t>>})

\* the count the lexical model records for w and t
Recorded(w, t) == IF t \in DictKeys(tag_cnts[w]) THEN DictGet(tag_cnts[w], t) ELSE 0

\* the lexicographic order of the tag symbols: "NN" < "NP" < "VB"
TagRank(t) == CASE t = "NN" -> 1 [] t = "NP" -> 2 [] t = "VB" -> 3 [] OTHER -> 0

TrainingWords == {initial_corpus[i][1] : i \in DOMAIN initial_corpus}

StartsUppercase(w) == w # <<>> /\ OrdA <= w[1] /\ w[1] <= OrdZ

Trained == pc \notin {"l93", "off"}

\* the run of main() is over, ended by the for statement of line 103
LearnerEnded == pc = "raised" /\ raised = "TypeError:70"

-----------------------------------------------------------------------------
(* The claims *)

\* C2: the learning loop ends normally, never in an error, an empty candidate
\* pool included.
C2_LearningEndsNormally == ~LearnerEnded

\* C3: when learning has ended, no candidate rule for the current mismatches,
\* applied once to the final x, gives a lower error count than x has.
C3_LocalOptimumAtEnd ==
  LearnerEnded =>
    \A c \in Candidates(x) : ErrorCount(ApplyT1(c[1], c[2], c[3], x)) >= ErrorCount(x)

\* C5: apply_patch returns to_tag exactly at the positions i >= 1 of the input
\* that hold from_tag and follow a z, and the input's tag everywhere else.
C5_ApplyIsTemplateT1 ==
  ap_pc = "returned" => ap_out = ApplyT1(ap_rule[1], ap_rule[2], ap_rule[3], ap_tags)

\* C6: the list apply_patch returns is as long as the list it was given.
C6_LengthPreserved == ap_pc = "returned" => Len(ap_out) = Len(ap_tags)

\* C7: two runs on the same corpora give the same initial predicted sequence.
C7_SameBaselineInBothRuns == x = x_rerun

\* C7, amended: two runs on the same corpora give the same baseline tag to every
\* patch word that was seen in training or starts with an uppercase letter.
C7_SameBaselineUnlessUnseenLowercase ==
  /\ Len(x) = Len(x_rerun)
  /\ \A i \in DOMAIN x :
       LET w == patch_corpus[i][1]
       IN (w \in TrainingWords \/ StartsUppercase(w)) => x[i] = x_rerun[i]

\* C7, witness: both runs have tagged a seen word and an unseen capitalized
\* word alike, with a tag of the tag set for the seen one
C7_Witness ==
  /\ pc = "l103"
  /\ \E i, j \in DOMAIN x :
       /\ patch_corpus[i][1] \in TrainingWords
       /\ x[i] \in tag_set
       /\ patch_corpus[j][1] \notin TrainingWords
       /\ StartsUppercase(patch_corpus[j][1])
       /\ x[i] = x_rerun[i]
       /\ x[j] = x_rerun[j]

\* C8: the lexical model records for every training word and tag the exact
\* number of occurrences, and most_likely_tag is a tag seen with the word that
\* has the highest count, the lexicographically smallest of those.
C8_BaselineCounts ==
  Trained =>
    /\ DOMAIN tag_cnts = TrainingWords
    /\ \A w \in TrainingWords :
         /\ \A t \in Tags : Recorded(w, t) = Occurrences(w, t)
         /\ Occurrences(w, most_likely_tag[w]) > 0
         /\ \A t \in Tags :
              \/ Occurrences(w, t) < Occurrences(w, most_likely_tag[w])
              \/ /\ Occurrences(w, t) = Occurrences(w, most_likely_tag[w])
                 /\ TagRank(most_likely_tag[w]) <= TagRank(t)

\* C9: every element of the predicted sequence is a member of the tag set of
\* the training corpus.
C9_TagsInTagSet == \A i \in DOMAIN x : x[i] \in tag_set

\* C10: the candidate pool is non-empty whenever x has a mismatch and the tag
\* set is non-empty.
C10_PoolCoversMismatches ==
  LearnerEnded => (MismatchPairs(x) # {} /\ tag_set # {} => patches # {})

=============================================================================
